---- MODULE Spec2Model ----
(***************************************************************************)
(* A model of src/INGEST_PHASE/ingest_phase.py: the header confirmations,  *)
(* the four parse_* validators, detect_input_type, ingest, the cumulative  *)
(* JSON / HTML reports and main().                                         *)
(*                                                                         *)
(* Files are abstracted to what the code reads from them.  A file name is  *)
(* a sequence of tokens <<base, ext1, ..., extN>> ("a.fq.gz" is            *)
(* <<"a", ".fq", ".gz">>); a FASTQ body is a sequence of 4-line records,   *)
(* each carrying one flag per rule (TRUE = the rule is met) followed by    *)
(* `tail` lines of an incomplete record; a table is a header and a         *)
(* sequence of rows, each row an identifier kind and a sequence of value   *)
(* kinds; a BAM file is its magic prefix.  An Optional[...] field of       *)
(* IngestResult is a sequence of length at most one (<<>> is None).        *)
(***************************************************************************)
EXTENDS Integers, Sequences, FiniteSets, TLC

VARIABLES
    disk,       \* the JSON report files of output_dir, by file name
    html,       \* the HTML report of output_dir
    results,    \* IngestPhase.results of the live IngestPhase object
    clock,      \* datetime.now()
    out,        \* what the last validator / ingest call did and returned
    mpc,        \* main(): position
    margs,      \* main(): args.samples, args.json, args.no_report
    midx,       \* main(): number of samples looked at so far
    mresults    \* main(): its local list `results`

vars == <<disk, html, results, clock, out, mpc, margs, midx, mresults>>

(***************************************************************************)
(* Bounds of the model.                                                    *)
(***************************************************************************)
\* longest run of equal records / rows in a generated file body
MaxRun == 11
\* number of files one IngestPhase object ingests, and length of a batch
MaxBatch == 2
\* number of datetime.now() readings in one behaviour
MaxClock == 3
\* records a long FASTQ file has beyond the sampling cap
MaxOver == 2

(***************************************************************************)
(* Program constants.                                                      *)
(***************************************************************************)
\* `len(validation_errors) > 10` : more diagnostics than this is FAIL
FailThreshold == 10
\* `row_count <= 5` / `read_count <= 5` : rows whose diagnostics are recorded
RecordedRows == 5
\* `len(errors) < 5` in validate_count_matrix_structure
StructureErrorCap == 5
\* `if read_count > 1000: break` in parse_fastq
SampleCap == 1000
\* `len(header) < 3` in validate_cell_header, `col_count < 3` in parse_cell
CellMinCols == 3
\* `len(header) < 2` / `len(lines) < 2` in validate_count_matrix_structure
MatrixMinCols == 2
\* `for _ in range(4)` readline in validate_fastq_header, `f.read(4)` in
\* validate_bam_magic: the longest fixed prefix a confirmation reads
SniffPrefix == 4

(***************************************************************************)
(* Sequences.                                                              *)
(***************************************************************************)
Rep(x, n) == [i \in 1..n |-> x]

Min(a, b) == IF a < b THEN a ELSE b

\* int(bool)
B2N(b) == IF b THEN 1 ELSE 0

Range(s) == {s[i] : i \in 1..Len(s)}

IsPrefix(s, t) == Len(s) <= Len(t) /\ SubSeq(t, 1, Len(s)) = s

(***************************************************************************)
(* pathlib.Path: name, suffix, stem; str.replace on a stem.                *)
(***************************************************************************)
\* Path.suffix: the last extension; a leading-dot name (".fastq") has none
Suffix(name) ==
    IF Len(name) < 2 THEN ""
    ELSE IF name[1] = "" /\ Len(name) = 2 THEN ""
    ELSE name[Len(name)]

\* Path.stem: the name without its suffix
Stem(name) ==
    IF Suffix(name) = "" THEN name ELSE SubSeq(name, 1, Len(name) - 1)

\* stem.replace(tok, ''): every occurrence of the token is removed
RECURSIVE Replace(_, _)
Replace(s, tok) ==
    IF s = <<>> THEN <<>>
    ELSE IF Head(s) = tok THEN Replace(Tail(s), tok)
    ELSE <<Head(s)>> \o Replace(Tail(s), tok)

\* `any(x in file_path.name for x in ['fastq', 'fq'])`
NameHasFastq(name) ==
    \E i \in 1..Len(name) : name[i] \in {".fastq", ".fq", "fastq", "fq"}

\* `any(pattern in file_path.name for pattern in ['_R1','_R2','_1','_2','.1','.2'])`
NameHasPairToken(name) ==
    \E i \in 1..Len(name) : name[i] \in {"s_R1", "s_R2", "s_1", "s_2"}

(***************************************************************************)
(* File contents.                                                          *)
(***************************************************************************)
\* a 4-line FASTQ record: one flag per rule, TRUE = the rule is met
FqRec(h, p, l, n, q) == [hdr |-> h, plus |-> p, len |-> l, nuc |-> n, qual |-> q]

FqClean == FqRec(TRUE, TRUE, TRUE, TRUE, TRUE)

FqKinds ==
    { FqClean,
      FqRec(FALSE, TRUE, TRUE, TRUE, TRUE),
      FqRec(TRUE, FALSE, TRUE, TRUE, TRUE),
      FqRec(TRUE, TRUE, FALSE, TRUE, TRUE),
      FqRec(TRUE, TRUE, TRUE, FALSE, TRUE),
      FqRec(TRUE, TRUE, TRUE, TRUE, FALSE),
      FqRec(FALSE, FALSE, FALSE, FALSE, TRUE) }

\* a table row: the identifier field and the fields after it.
\* id: "ok" (alphanumeric), "bad" (e.g. "p#1"), "empty" ("").
\* value: "int" ("3"), "frac" ("3.5"), "neg" ("-3"), "text" ("NA")
Row(i, v) == [id |-> i, vals |-> v]

RowKinds ==
    { Row("ok", <<"int", "int">>),
      Row("ok", <<"text", "int">>),
      Row("ok", <<"int", "neg">>),
      Row("ok", <<"int", "text">>),
      Row("ok", <<"int", "frac">>),
      Row("ok", <<"int">>),
      Row("bad", <<"int", "int">>),
      Row("bad", <<"int", "neg", "neg">>),
      Row("empty", <<>>) }

\* a table header: its number of columns and what the column names contain
Header(n, p, i) == [ncols |-> n, probe |-> p, intensity |-> i]

Headers ==
    { Header(3, TRUE, TRUE), Header(3, FALSE, FALSE),
      Header(2, TRUE, TRUE), Header(1, FALSE, FALSE) }

NoHeader == Header(0, FALSE, FALSE)

\* kind: "fastq", "bam", "table", "empty" (a file of zero bytes)
Content(k, m, r, t, h, w) ==
    [kind |-> k, magic |-> m, recs |-> r, tail |-> t, header |-> h, rows |-> w]

FastqContent(r, t) == Content("fastq", FALSE, r, t, NoHeader, <<>>)

BamContent(m) == Content("bam", m, <<>>, 0, NoHeader, <<>>)

TableContent(h, w) == Content("table", FALSE, <<>>, 0, h, w)

EmptyContent == Content("empty", FALSE, <<>>, 0, NoHeader, <<>>)

\* a path and what the file system holds there
File(n, e, c) == [name |-> n, exists |-> e, content |-> c]

(***************************************************************************)
(* The inputs: every body shape under one name per format, a few bodies    *)
(* under every name, and paths at which there is no file.                  *)
(***************************************************************************)
Names ==
    { <<"a", ".fastq">>, <<"a", ".fq", ".gz">>, <<"s_R1", ".fastq">>,
      <<"a", ".bam">>, <<"a", ".tsv">>, <<"a", ".txt">>, <<"b", ".csv">>,
      <<"b", ".dat">>, <<"", ".fq", ".gz">>, <<"", ".fastq", ".fastq">> }

FastqBodies ==
    { FastqContent(Rep(k1, n1) \o Rep(k2, n2), t) :
        k1 \in FqKinds, n1 \in 0..1, k2 \in FqKinds, n2 \in 0..MaxRun, t \in {0, 2} }

TableBodies ==
    { TableContent(h, Rep(k1, n1) \o Rep(k2, n2)) :
        h \in Headers, k1 \in RowKinds, n1 \in {0, 1, RecordedRows},
        k2 \in RowKinds, n2 \in 0..MaxRun }

BamBodies == { BamContent(m) : m \in BOOLEAN }

FewBodies ==
    { FastqContent(<<FqClean>>, 0),
      FastqContent(<<FqClean, FqRec(TRUE, TRUE, FALSE, TRUE, TRUE)>>, 0),
      BamContent(TRUE), BamContent(FALSE),
      TableContent(Header(3, TRUE, TRUE), <<Row("ok", <<"int", "int">>)>>),
      TableContent(Header(3, FALSE, FALSE), <<Row("ok", <<"int", "int">>)>>),
      TableContent(Header(3, FALSE, FALSE), <<Row("ok", <<"int", "neg">>)>>),
      EmptyContent }

DeepFiles ==
    { File(<<"a", ".fastq">>, TRUE, c) : c \in FastqBodies }
      \cup { File(<<"a", ".tsv">>, TRUE, c) : c \in TableBodies }
      \cup { File(<<"a", ".bam">>, TRUE, c) : c \in BamBodies }

WideFiles == { File(n, TRUE, c) : n \in Names, c \in FewBodies }

MissingFiles == { File(n, FALSE, EmptyContent) : n \in Names }

\* FASTQ files as long as the sampling cap and longer: clean records up to
\* the cap, then records of one kind
LongFiles ==
    { File(<<"a", ".fastq">>, TRUE, FastqContent(Rep(FqClean, SampleCap) \o Rep(k, n), 0)) :
        k \in FqKinds, n \in 0..MaxOver }

Files == DeepFiles \cup WideFiles \cup MissingFiles \cup LongFiles

(***************************************************************************)
(* Header / magic confirmations.  Each catches every exception and         *)
(* answers False, so a path with no file answers False.                    *)
(***************************************************************************)
\* the first four lines are a record meeting every rule
validate_fastq_header(f) ==
    /\ f.exists
    /\ f.content.kind = "fastq"
    /\ Len(f.content.recs) >= 1
    /\ LET r == f.content.recs[1]
       IN  r.hdr /\ r.plus /\ r.nuc /\ r.len /\ r.qual

\* the first four bytes are BAM\x01
validate_bam_magic(f) ==
    f.exists /\ f.content.kind = "bam" /\ f.content.magic

\* the header row names a probe column and an intensity / signal column
validate_cell_header(f) ==
    /\ f.exists
    /\ f.content.kind = "table"
    /\ f.content.header.probe
    /\ f.content.header.intensity
    /\ ~(f.content.header.ncols < CellMinCols)

\* `line.strip().split('\t')`: leading and trailing white space goes first,
\* so an empty first field is lost unless the line is blank
Fields(row) ==
    IF row.id = "empty"
    THEN IF row.vals = <<>> THEN <<"">> ELSE row.vals
    ELSE <<row.id>> \o row.vals

\* float(x) succeeds
IsNumber(x) == x \in {"int", "frac", "neg"}

\* float(x) < 0
IsNegative(x) == x = "neg"

\* x.replace('_', '').replace('-', '').isalnum()
IsAlnumId(x) == x \in {"ok", "int", "neg", "text"}

\* the column loop of validate_count_matrix_structure, columns c..len(fields):
\* the values that are negative or no number
RECURSIVE StructureCols(_, _)
StructureCols(fields, c) ==
    IF c > Len(fields) THEN 0
    ELSE B2N(~IsNumber(fields[c]) \/ IsNegative(fields[c])) + StructureCols(fields, c + 1)

\* StructureRows as it would be if only the first five rows were checked
RECURSIVE StructureRowsRecorded(_, _, _, _)
StructureRowsRecorded(rows, i, ncols, n) ==
    IF i > Len(rows) \/ i > RecordedRows THEN n
    ELSE LET fields == Fields(rows[i])
             found == B2N(Len(fields) # ncols) + B2N(fields[1] = "")
                        + StructureCols(fields, 2)
         IN  StructureRowsRecorded(rows, i + 1, ncols, Min(n + found, StructureErrorCap))

\* the row loop of validate_count_matrix_structure: len(errors) at its end.
\* Every errors.append(...) is under `if len(errors) < 5`, so the list stops
\* growing at five entries.
RECURSIVE StructureRows(_, _, _, _)
StructureRows(rows, i, ncols, n) ==
    IF i > Len(rows) THEN n
    ELSE LET fields == Fields(rows[i])
             found == B2N(Len(fields) # ncols) + B2N(fields[1] = "")
                        + StructureCols(fields, 2)
         IN  StructureRows(rows, i + 1, ncols, Min(n + found, StructureErrorCap))

\* header + at least one row, at least two columns, and no row error
validate_count_matrix_structure(f) ==
    /\ f.exists
    /\ f.content.kind = "table"
    /\ ~(1 + Len(f.content.rows) < MatrixMinCols)
    /\ ~(f.content.header.ncols < MatrixMinCols)
    /\ StructureRows(f.content.rows, 1, f.content.header.ncols, 0) = 0

(***************************************************************************)
(* IngestResult and what a call returns.                                   *)
(***************************************************************************)
IngestResult(name, type, status, message, reads, paired, now) ==
    [sample_name |-> name, input_type |-> type, validation_status |-> status,
     validation_message |-> message, total_reads |-> reads,
     is_paired_end |-> paired, timestamp |-> now]

NoResult == IngestResult(<<>>, "", "", "", <<>>, <<>>, 0)

\* ret: "record" (the call returned rec) or "raise" (it raised to its caller);
\* header: the confirmation's answer; body: records / rows the body loop
\* looked at; tool: samtools was run; ndiag: len(validation_errors)
Outcome(ret, rec, header, body, tool, ndiag) ==
    [ret |-> ret, rec |-> rec, header |-> header, body |-> body,
     tool |-> tool, ndiag |-> ndiag]

Raised(header) == Outcome("raise", NoResult, header, 0, FALSE, 0)

\* `file_path.stat().st_size` while the record is built: with no file at the
\* path it raises FileNotFoundError; the `except Exception` handler of every
\* validator calls stat() again, so the error leaves the validator
Build(f, rec, header, body, tool, ndiag) ==
    IF f.exists THEN Outcome("record", rec, header, body, tool, ndiag)
    ELSE Raised(header)

\* StatusOf as it would be with `>=` for `>`
StatusOfOffByOne(ndiag) ==
    IF ndiag # 0
    THEN IF ndiag >= FailThreshold THEN "FAIL" ELSE "WARN"
    ELSE "PASS"

\* `'FAIL' if len(validation_errors) > 10 else 'WARN'`, 'PASS' when empty
StatusOf(ndiag) ==
    IF ndiag # 0
    THEN IF ndiag > FailThreshold THEN "FAIL" ELSE "WARN"
    ELSE "PASS"

MessageOf(ndiag) == IF ndiag # 0 THEN "Found validation errors" ELSE "validation successful"

(***************************************************************************)
(* parse_fastq                                                             *)
(***************************************************************************)
\* sample_name = stem.replace('.fastq', '').replace('.fq', '').replace('.gz', '')
FastqSampleName(name) ==
    Replace(Replace(Replace(Stem(name), ".fastq"), ".fq"), ".gz")

\* the record loop from record i on: every four lines one record is checked;
\* the quality range is not checked here, invalid nucleotides are recorded
\* for the first five records only, and the loop leaves once read_count
\* exceeds 1000.  The lines of an incomplete last record are never checked.
\* (The diagnostics are counted rule by rule over the records the loop
\* reaches, records i .. last, where last is the record it leaves after.)
FastqLoop(recs, i, errs) ==
    LET last == IF Len(recs) > SampleCap THEN SampleCap + 1 ELSE Len(recs)
        seen == i..last
    IN  [reads |-> IF i > last THEN i - 1 ELSE last,
         errs |-> errs + Cardinality({ j \in seen : ~recs[j].hdr })
                       + Cardinality({ j \in seen : ~recs[j].plus })
                       + Cardinality({ j \in seen : ~recs[j].len })
                       + Cardinality({ j \in seen : ~recs[j].nuc /\ j <= RecordedRows })]

parse_fastq(f, now) ==
    LET sample == FastqSampleName(f.name)
    IN  IF ~validate_fastq_header(f)
        THEN Build(f, IngestResult(sample, "FASTQ", "FAIL", "Header validation failed",
                                   <<>>, <<>>, now),
                   FALSE, 0, FALSE, 0)
        ELSE LET loop == FastqLoop(f.content.recs, 1, 0)
             IN  Build(f, IngestResult(sample, "FASTQ", StatusOf(loop.errs),
                                       MessageOf(loop.errs), <<loop.reads>>,
                                       <<NameHasPairToken(f.name)>>, now),
                       TRUE, loop.reads, FALSE, loop.errs)

(***************************************************************************)
(* parse_bam                                                               *)
(***************************************************************************)
\* what `subprocess.run(['samtools', 'flagstat', path], timeout=60)` does:
\* FileNotFoundError, a non-zero return code, TimeoutExpired, return code 0
\* with a first line that is no number, or return code 0 with a read count
ToolRun(k, n) == [kind |-> k, reads |-> n]

ToolOutcomes ==
    { ToolRun(k, 0) : k \in {"missing", "nonzero", "timeout", "unparseable"} }
      \cup { ToolRun("ok", n) : n \in {0, 3} }

\* parse_bam as it would be without the early return on a bad magic prefix
parse_bam_no_return(f, run, now) ==
    LET sample == Replace(Stem(f.name), ".bam")
    IN  IF run.kind = "ok"
        THEN Build(f, IngestResult(sample, "BAM", "PASS", "BAM validation successful",
                                   <<run.reads>>, <<run.reads > 0>>, now),
                   validate_bam_magic(f), 0, TRUE, 0)
        ELSE Build(f, IngestResult(sample, "BAM", "PASS", "BAM magic number valid",
                                   <<>>, <<>>, now),
                   validate_bam_magic(f), 0, TRUE, 0)

\* parse_bam as it would be if a failed samtools run failed the file
parse_bam_tool_fails(f, run, now) ==
    LET sample == Replace(Stem(f.name), ".bam")
    IN  IF ~validate_bam_magic(f)
        THEN Build(f, IngestResult(sample, "BAM", "FAIL", "Magic bytes validation failed",
                                   <<>>, <<>>, now),
                   FALSE, 0, FALSE, 0)
        ELSE IF run.kind = "ok"
        THEN Build(f, IngestResult(sample, "BAM", "PASS", "BAM validation successful",
                                   <<run.reads>>, <<run.reads > 0>>, now),
                   TRUE, 0, TRUE, 0)
        ELSE Build(f, IngestResult(sample, "BAM", "FAIL", "Parsing error",
                                   <<>>, <<>>, now),
                   TRUE, 0, TRUE, 0)

parse_bam(f, run, now) ==
    LET sample == Replace(Stem(f.name), ".bam")
    IN  IF ~validate_bam_magic(f)
        THEN Build(f, IngestResult(sample, "BAM", "FAIL", "Magic bytes validation failed",
                                   <<>>, <<>>, now),
                   FALSE, 0, FALSE, 0)
        ELSE IF run.kind = "ok"
        THEN Build(f, IngestResult(sample, "BAM", "PASS", "BAM validation successful",
                                   <<run.reads>>, <<run.reads > 0>>, now),
                   TRUE, 0, TRUE, 0)
        ELSE Build(f, IngestResult(sample, "BAM", "PASS", "BAM magic number valid",
                                   <<>>, <<>>, now),
                   TRUE, 0, TRUE, 0)

(***************************************************************************)
(* parse_cell                                                              *)
(***************************************************************************)
\* `for col_idx in range(2, min(len(fields), col_count))`: the columns after
\* the identifier and the gene symbol must be numbers >= 0
RECURSIVE CellCols(_, _, _, _)
CellCols(fields, c, last, n) ==
    IF c > last THEN n
    ELSE CellCols(fields, c + 1, last,
                  n + B2N(~IsNumber(fields[c]) \/ IsNegative(fields[c])))

\* the row loop: a row's diagnostics are recorded only while row_count <= 5
RECURSIVE CellRows(_, _, _, _)
CellRows(rows, i, ncols, n) ==
    IF i > Len(rows) THEN n
    ELSE LET fields == Fields(rows[i])
             found == B2N(Len(fields) # ncols) + B2N(~IsAlnumId(fields[1]))
                        + CellCols(fields, 3, Min(Len(fields), ncols), 0)
         IN  CellRows(rows, i + 1, ncols,
                      IF i <= RecordedRows THEN n + found ELSE n)

parse_cell(f, now) ==
    LET sample == Stem(f.name)
    IN  IF ~validate_cell_header(f)
        THEN Build(f, IngestResult(sample, "CELL", "FAIL", "Header validation failed",
                                   <<>>, <<>>, now),
                   FALSE, 0, FALSE, 0)
        ELSE LET ncols == f.content.header.ncols
                 errs == CellRows(f.content.rows, 1, ncols, B2N(ncols < CellMinCols))
             IN  Build(f, IngestResult(sample, "CELL", StatusOf(errs), MessageOf(errs),
                                       <<Len(f.content.rows)>>, <<>>, now),
                       TRUE, Len(f.content.rows), FALSE, errs)

(***************************************************************************)
(* parse_count_matrix                                                      *)
(***************************************************************************)
\* `for col_idx in range(1, len(fields))`: a negative or non-numeric value is
\* a diagnostic, a non-integer value is only logged
RECURSIVE MatrixCols(_, _, _)
MatrixCols(fields, c, n) ==
    IF c > Len(fields) THEN n
    ELSE MatrixCols(fields, c + 1,
                    n + B2N(~IsNumber(fields[c]) \/ IsNegative(fields[c])))

RECURSIVE MatrixRows(_, _, _, _)
MatrixRows(rows, i, ncols, n) ==
    IF i > Len(rows) THEN n
    ELSE LET fields == Fields(rows[i])
             found == B2N(Len(fields) # ncols) + B2N(fields[1] = "")
                        + MatrixCols(fields, 2, 0)
         IN  MatrixRows(rows, i + 1, ncols,
                        IF i <= RecordedRows THEN n + found ELSE n)

parse_count_matrix(f, now) ==
    LET sample == Stem(f.name)
    IN  IF ~validate_count_matrix_structure(f)
        THEN Build(f, IngestResult(sample, "MATRIX", "FAIL", "Structure validation failed",
                                   <<>>, <<>>, now),
                   FALSE, 0, FALSE, 0)
        ELSE LET ncols == f.content.header.ncols
                 errs == MatrixRows(f.content.rows, 1, ncols, B2N(ncols < MatrixMinCols))
             IN  Build(f, IngestResult(sample, "MATRIX", StatusOf(errs), MessageOf(errs),
                                       <<Len(f.content.rows)>>, <<>>, now),
                       TRUE, Len(f.content.rows), FALSE, errs)

(***************************************************************************)
(* detect_input_type and ingest                                            *)
(***************************************************************************)
\* the lines of a file: four per FASTQ record and those of a cut record,
\* the header and the rows of a table, one for the few bytes of a BAM file
Lines(f) ==
    IF ~f.exists THEN 0
    ELSE CASE f.content.kind = "fastq" -> 4 * Len(f.content.recs) + f.content.tail
           [] f.content.kind = "table" -> 1 + Len(f.content.rows)
           [] f.content.kind = "bam" -> 1
           [] OTHER -> 0

\* what one confirmation reads of the file: `f.readline()` four times,
\* `f.read(4)` (bytes), `f.readline()` once, `f.readlines()` (every line)
ReadBy(v, f) ==
    CASE v = "fastq" -> Min(SniffPrefix, Lines(f))
      [] v = "bam" -> Min(SniffPrefix, 4 * Lines(f))
      [] v = "cell" -> Min(1, Lines(f))
      [] OTHER -> Lines(f)

\* the confirmations detect_input_type calls on the file, in call order
SniffCalls(f) ==
    LET extension == Suffix(f.name)
        tabular == extension \in {".tsv", ".csv", ".txt"}
    IN  (IF extension \in {".fastq", ".fq", ".gz"} /\ NameHasFastq(f.name)
         THEN <<"fastq">> ELSE <<>>)
        \o (IF extension = ".bam" THEN <<"bam">> ELSE <<>>)
        \o (IF tabular THEN <<"cell">> ELSE <<>>)
        \o (IF tabular /\ ~validate_cell_header(f) THEN <<"matrix">> ELSE <<>>)

\* detect_input_type as it would be if the extension decided by itself
detect_by_extension(f) ==
    LET extension == Suffix(f.name)
    IN  IF extension \in {".fastq", ".fq", ".gz"} /\ NameHasFastq(f.name)
        THEN "FASTQ"
        ELSE IF extension = ".bam"
        THEN "BAM"
        ELSE IF extension \in {".tsv", ".csv", ".txt"} /\ validate_cell_header(f)
        THEN "CELL"
        ELSE IF extension \in {".tsv", ".csv", ".txt"}
        THEN "MATRIX"
        ELSE "UNKNOWN"

\* detect_input_type as it would be with the count-matrix check tried first
detect_matrix_first(f) ==
    LET extension == Suffix(f.name)
    IN  IF extension \in {".fastq", ".fq", ".gz"} /\ NameHasFastq(f.name)
             /\ validate_fastq_header(f)
        THEN "FASTQ"
        ELSE IF extension = ".bam" /\ validate_bam_magic(f)
        THEN "BAM"
        ELSE IF extension \in {".tsv", ".csv", ".txt"} /\ validate_count_matrix_structure(f)
        THEN "MATRIX"
        ELSE IF extension \in {".tsv", ".csv", ".txt"} /\ validate_cell_header(f)
        THEN "CELL"
        ELSE "UNKNOWN"

detect_input_type(f) ==
    LET extension == Suffix(f.name)
    IN  IF extension \in {".fastq", ".fq", ".gz"} /\ NameHasFastq(f.name)
             /\ validate_fastq_header(f)
        THEN "FASTQ"
        ELSE IF extension = ".bam" /\ validate_bam_magic(f)
        THEN "BAM"
        ELSE IF extension \in {".tsv", ".csv", ".txt"} /\ validate_cell_header(f)
        THEN "CELL"
        ELSE IF extension \in {".tsv", ".csv", ".txt"} /\ validate_count_matrix_structure(f)
        THEN "MATRIX"
        ELSE "UNKNOWN"

\* ingest() up to `self.results.append(result)`: the validator's outcome, or
\* the UNKNOWN record
ingest(f, run, now) ==
    LET input_type == detect_input_type(f)
    IN  CASE input_type = "FASTQ"  -> parse_fastq(f, now)
          [] input_type = "BAM"    -> parse_bam(f, run, now)
          [] input_type = "CELL"   -> parse_cell(f, now)
          [] input_type = "MATRIX" -> parse_count_matrix(f, now)
          [] OTHER -> Build(f, IngestResult(Stem(f.name), "UNKNOWN", "FAIL",
                                            "Unknown file type", <<>>, <<>>, now),
                            FALSE, 0, FALSE, 0)

(***************************************************************************)
(* The persisted JSON report and generate_report.                          *)
(***************************************************************************)
JsonNames == {"ingest_report.json", "custom.json"}

\* a report file: parseable = json.load succeeds on it; the rest is the
\* top-level object {"timestamp", "total_files", "results"}
ReportFile(e, p, ts, n, rs) ==
    [exists |-> e, parseable |-> p, timestamp |-> ts, total_files |-> n, results |-> rs]

NoReport == ReportFile(FALSE, FALSE, 0, 0, <<>>)

\* `if output_path.exists(): try: json.load ... except: warning`: the records
\* read from the file, none when it is absent or cannot be parsed
LoadExisting(file) ==
    IF file.exists /\ file.parseable THEN file.results ELSE <<>>

\* existing_samples: the sample_name of every record read
ExistingSamples(all_results) ==
    { all_results[i].sample_name : i \in 1..Len(all_results) }

\* MergeNew as it would be if an appended name joined existing_samples
RECURSIVE MergeNewSeen(_, _, _, _)
MergeNewSeen(new, i, all_results, existing_samples) ==
    IF i > Len(new) THEN all_results
    ELSE IF new[i].sample_name \notin existing_samples
    THEN MergeNewSeen(new, i + 1, Append(all_results, new[i]),
                      existing_samples \cup {new[i].sample_name})
    ELSE MergeNewSeen(new, i + 1, all_results, existing_samples)

\* MergeNew as it would be without the duplicate test
RECURSIVE MergeNewAll(_, _, _, _)
MergeNewAll(new, i, all_results, existing_samples) ==
    IF i > Len(new) THEN all_results
    ELSE MergeNewAll(new, i + 1, Append(all_results, new[i]), existing_samples)

\* `for result in self.results`: from record i on, a record is appended
\* unless its sample_name is in existing_samples, which holds the names read
\* from the file and is not added to
RECURSIVE MergeNew(_, _, _, _)
MergeNew(new, i, all_results, existing_samples) ==
    IF i > Len(new) THEN all_results
    ELSE IF new[i].sample_name \notin existing_samples
    THEN MergeNew(new, i + 1, Append(all_results, new[i]), existing_samples)
    ELSE MergeNew(new, i + 1, all_results, existing_samples)

\* load, merge: the records generate_report / generate_html_report end with
Merged(file, new) ==
    LET loaded == LoadExisting(file)
    IN  MergeNew(new, 1, loaded, ExistingSamples(loaded))

\* the document generate_report writes
generate_report(file, new, now) ==
    LET all_results == Merged(file, new)
    IN  ReportFile(TRUE, TRUE, now, Len(all_results), all_results)

(***************************************************************************)
(* generate_html_report: it always merges against ingest_report.json.      *)
(***************************************************************************)
CountStatus(rs, st) == Cardinality({ i \in 1..Len(rs) : rs[i].validation_status = st })

\* HtmlFile as it would be with totals carried forward (`total_pass =
\* len(existing_samples)  # Approximate`) in place of the recount
HtmlFileCarried(e, rs, now) ==
    [exists |-> e, rows |-> rs, total |-> Len(rs),
     pass_count |-> Len(rs), warn_count |-> 0, fail_count |-> 0, timestamp |-> now]

\* the page: one table row per record of display_results and the totals
\* counted over display_results
HtmlFile(e, rs, now) ==
    [exists |-> e, rows |-> rs, total |-> Len(rs),
     pass_count |-> CountStatus(rs, "PASS"), warn_count |-> CountStatus(rs, "WARN"),
     fail_count |-> CountStatus(rs, "FAIL"), timestamp |-> now]

generate_html_report(json, new, now) ==
    HtmlFile(TRUE, Merged(json["ingest_report.json"], new), now)

(***************************************************************************)
(* What the last call did.                                                 *)
(***************************************************************************)
NoRun == ToolRun("none", 0)

Called(op, f, run, res) == [op |-> op, file |-> f, run |-> run, res |-> res]

\* what a detect_input_type call returned and did: the type, the
\* confirmations it called and how much each of them read
Detected(f) ==
    [op |-> "detect_input_type", file |-> f, type |-> detect_input_type(f),
     calls |-> SniffCalls(f),
     reads |-> [i \in 1..Len(SniffCalls(f)) |-> ReadBy(SniffCalls(f)[i], f)]]

\* again: the call before it was generate_report of the same batch into the
\* same file
Reported(fn, batch, before, again) ==
    [op |-> "generate_report", fn |-> fn, batch |-> batch, before |-> before,
     again |-> again]

IsRepeat(fn) == out.op = "generate_report" /\ out.fn = fn /\ out.batch = results

(***************************************************************************)
(* Initial state.                                                          *)
(***************************************************************************)
OldRecord == IngestResult(<<"a">>, "CELL", "PASS", "validation successful", <<1>>, <<>>, 0)

\* ingest_report.json as an earlier run may have left it: absent, cut short
\* (not parseable), or a document with unique sample names
InitReports ==
    { NoReport,
      ReportFile(TRUE, FALSE, 0, 1, <<OldRecord>>),
      ReportFile(TRUE, TRUE, 0, 0, <<>>),
      ReportFile(TRUE, TRUE, 0, 1, <<OldRecord>>) }

NoArgs == [samples |-> <<>>, json |-> "ingest_report.json", no_report |-> FALSE]

Init ==
    /\ \E r \in InitReports :
         disk = [fn \in JsonNames |-> IF fn = "ingest_report.json" THEN r ELSE NoReport]
    /\ html = HtmlFile(FALSE, <<>>, 0)
    /\ results = <<>>
    /\ clock = 1
    /\ out = [op |-> "none"]
    /\ mpc = "idle"
    /\ margs = NoArgs
    /\ midx = 0
    /\ mresults = <<>>

(***************************************************************************)
(* Calls of the IngestPhase methods.                                       *)
(***************************************************************************)
mainVars == <<mpc, margs, midx, mresults>>

ParseFastq(f) ==
    /\ mpc = "idle"
    /\ out' = Called("parse_fastq", f, NoRun, parse_fastq(f, clock))
    /\ UNCHANGED <<disk, html, results, clock, mainVars>>

ParseBam(f, run) ==
    /\ mpc = "idle"
    /\ out' = Called("parse_bam", f, run, parse_bam(f, run, clock))
    /\ UNCHANGED <<disk, html, results, clock, mainVars>>

ParseCell(f) ==
    /\ mpc = "idle"
    /\ out' = Called("parse_cell", f, NoRun, parse_cell(f, clock))
    /\ UNCHANGED <<disk, html, results, clock, mainVars>>

ParseCountMatrix(f) ==
    /\ mpc = "idle"
    /\ out' = Called("parse_count_matrix", f, NoRun, parse_count_matrix(f, clock))
    /\ UNCHANGED <<disk, html, results, clock, mainVars>>

\* Ingest as it would be if every ingest() call also saved the report
IngestSaving(f, run) ==
    /\ mpc = "idle"
    /\ Len(results) < MaxBatch
    /\ LET res == ingest(f, run, clock)
           new == IF res.ret = "record" THEN Append(results, res.rec) ELSE results
       IN  /\ out' = Called("ingest", f, run, res)
           /\ results' = new
           /\ disk' = [disk EXCEPT !["ingest_report.json"] =
                                      generate_report(@, new, clock)]
    /\ UNCHANGED <<html, clock, mainVars>>

DetectInputType(f) ==
    /\ mpc = "idle"
    /\ out' = Detected(f)
    /\ UNCHANGED <<disk, html, results, clock, mainVars>>

\* ingest(): the record is appended to self.results unless the call raised
Ingest(f, run) ==
    /\ mpc = "idle"
    /\ Len(results) < MaxBatch
    /\ LET res == ingest(f, run, clock)
       IN  /\ out' = Called("ingest", f, run, res)
           /\ results' = IF res.ret = "record" THEN Append(results, res.rec) ELSE results
    /\ UNCHANGED <<disk, html, clock, mainVars>>

GenerateReport(fn) ==
    /\ mpc = "idle"
    /\ clock < MaxClock
    /\ disk' = [disk EXCEPT ![fn] = generate_report(disk[fn], results, clock)]
    /\ out' = Reported(fn, results, disk[fn], IsRepeat(fn))
    /\ clock' = clock + 1
    /\ UNCHANGED <<html, results, mainVars>>

GenerateHtmlReport ==
    /\ mpc = "idle"
    /\ html' = generate_html_report(disk, results, clock)
    /\ UNCHANGED <<disk, results, clock, out, mainVars>>

(***************************************************************************)
(* The save of generate_report as the file system sees it:                 *)
(* `with open(output_path, 'w') as f: json.dump(report_data, f, indent=2)` *)
(* truncates the file, writes the text through a buffer, and closes.       *)
(***************************************************************************)
\* the file right after open(..., 'w'): zero bytes
Truncated == ReportFile(TRUE, FALSE, 0, 0, <<>>)

\* the file after a buffer of the text has been flushed: the text is cut
\* after the first n records and json.load fails on it
CutAt(doc, n) ==
    ReportFile(TRUE, FALSE, doc.timestamp, doc.total_files, SubSeq(doc.results, 1, n))

Saving(fn, batch, before, doc) ==
    [op |-> "saving", fn |-> fn, batch |-> batch, before |-> before, doc |-> doc]

\* generate_report up to and including open(output_path, 'w')
SaveOpen(fn) ==
    /\ mpc = "idle"
    /\ out.op # "saving"
    /\ clock < MaxClock
    /\ out' = Saving(fn, results, disk[fn], generate_report(disk[fn], results, clock))
    /\ disk' = [disk EXCEPT ![fn] = Truncated]
    /\ clock' = clock + 1
    /\ UNCHANGED <<html, results, mainVars>>

\* json.dump: a full buffer of the text reaches the file
SaveFlush ==
    /\ mpc = "idle"
    /\ out.op = "saving"
    /\ \E n \in 0..Len(out.doc.results) : disk' = [disk EXCEPT ![out.fn] = CutAt(out.doc, n)]
    /\ UNCHANGED <<html, results, clock, out, mainVars>>

\* the end of the `with` block: the rest of the text is written, the file
\* is closed and generate_report returns
SaveClose ==
    /\ mpc = "idle"
    /\ out.op = "saving"
    /\ disk' = [disk EXCEPT ![out.fn] = out.doc]
    /\ out' = Reported(out.fn, out.batch, out.before, FALSE)
    /\ UNCHANGED <<html, results, clock, mainVars>>

\* the process is killed while the file is open; a new process starts
\* with a new IngestPhase object
SaveCrash ==
    /\ mpc = "idle"
    /\ out.op = "saving"
    /\ out' = [out EXCEPT !.op = "killed"]
    /\ results' = <<>>
    /\ UNCHANGED <<disk, html, clock, mainVars>>

(***************************************************************************)
(* main()                                                                  *)
(***************************************************************************)
\* the files a batch is made of: two tables with the same stem, a table no
\* format confirms, a FASTQ file, a BAM file, and a path with no file
AggFiles ==
    { File(<<"a", ".tsv">>, TRUE,
           TableContent(Header(3, TRUE, TRUE), <<Row("ok", <<"int", "int">>)>>)),
      File(<<"a", ".txt">>, TRUE,
           TableContent(Header(3, FALSE, FALSE), <<Row("ok", <<"int", "int">>)>>)),
      File(<<"b", ".csv">>, TRUE,
           TableContent(Header(3, FALSE, FALSE), <<Row("ok", <<"int", "neg">>)>>)),
      File(<<"a", ".fastq">>, TRUE,
           FastqContent(<<FqClean, FqRec(TRUE, TRUE, FALSE, TRUE, TRUE)>>, 0)),
      File(<<"a", ".bam">>, TRUE, BamContent(TRUE)),
      File(<<"b", ".dat">>, FALSE, EmptyContent) }

\* the runs of samtools the batch files are ingested under
AggRuns == { ToolRun("missing", 0), ToolRun("ok", 3) }

\* the files main() is run on
MainFiles ==
    { f \in AggFiles : f.name \in { <<"a", ".tsv">>, <<"a", ".txt">>, <<"b", ".csv">>,
                                   <<"b", ".dat">> } }

Batches ==
    UNION { [1..n -> MainFiles] : n \in 1..MaxBatch }

\* parse_args, IngestPhase(output_dir=args.output), results = []
MainStart(samples, json, no_report) ==
    /\ mpc \in {"idle", "exit0", "exit1"}
    /\ clock < MaxClock
    /\ margs' = [samples |-> samples, json |-> json, no_report |-> no_report]
    /\ results' = <<>>
    /\ midx' = 0
    /\ mresults' = <<>>
    /\ mpc' = "loop"
    /\ UNCHANGED <<disk, html, clock, out>>

\* one turn of `for idx, sample_file in enumerate(args.samples, 1)`: a path
\* with no file is reported and skipped (`continue`), any other is ingested
MainLoop ==
    /\ mpc = "loop"
    /\ midx < Len(margs.samples)
    /\ LET f == margs.samples[midx + 1]
       IN  IF ~f.exists
           THEN /\ midx' = midx + 1
                /\ UNCHANGED <<results, out, mresults, mpc>>
           ELSE \E run \in AggRuns :
                  LET res == ingest(f, run, clock)
                  IN  /\ out' = Called("ingest", f, run, res)
                      /\ IF res.ret = "record"
                         THEN /\ results' = Append(results, res.rec)
                              /\ mresults' = Append(mresults, res.rec)
                              /\ midx' = midx + 1
                              /\ mpc' = mpc
                         ELSE /\ mpc' = "crashed"
                              /\ UNCHANGED <<results, mresults, midx>>
    /\ UNCHANGED <<disk, html, clock, margs>>

\* after the loop: exit 1 when nothing was processed; else, unless
\* --no-report, generate_html_report and then generate_report(json_filename)
MainReports ==
    /\ mpc = "loop"
    /\ midx = Len(margs.samples)
    /\ IF mresults = <<>>
       THEN /\ mpc' = "exit1"
            /\ UNCHANGED <<disk, html, clock, out>>
       ELSE IF margs.no_report
       THEN /\ mpc' = "summary"
            /\ UNCHANGED <<disk, html, clock, out>>
       ELSE /\ html' = generate_html_report(disk, results, clock)
            /\ disk' = [disk EXCEPT
                          ![margs.json] = generate_report(disk[margs.json], results, clock)]
            /\ out' = Reported(margs.json, results, disk[margs.json], IsRepeat(margs.json))
            /\ clock' = clock + 1
            /\ mpc' = "summary"
    /\ UNCHANGED <<results, margs, midx, mresults>>

\* the summary: sys.exit(1) when a record of the batch is FAIL, else sys.exit(0)
MainSummary ==
    /\ mpc = "summary"
    /\ mpc' = IF CountStatus(mresults, "FAIL") > 0 THEN "exit1" ELSE "exit0"
    /\ UNCHANGED <<disk, html, results, clock, out, margs, midx, mresults>>

(***************************************************************************)
(* Specifications.                                                         *)
(***************************************************************************)
\* the methods of one IngestPhase object, over the batch files
Next ==
    \/ \E f \in AggFiles, run \in AggRuns : Ingest(f, run)
    \/ \E fn \in JsonNames : GenerateReport(fn)
    \/ GenerateHtmlReport

Spec == Init /\ [][Next]_vars

\* runs of main(), one after another, over the batch files
NextMain ==
    \/ \E b \in Batches, json \in JsonNames, nr \in BOOLEAN : MainStart(b, json, nr)
    \/ MainLoop
    \/ MainReports
    \/ MainSummary

SpecMain == Init /\ [][NextMain]_vars

\* one call of a validator or of ingest() on a new object, over every file
InitParse ==
    /\ Init
    /\ disk = [fn \in JsonNames |-> NoReport]

NextParse ==
    /\ out.op = "none"
    /\ \/ \E f \in Files : ParseFastq(f)
       \/ \E f \in Files, run \in ToolOutcomes : ParseBam(f, run)
       \/ \E f \in Files : ParseCell(f)
       \/ \E f \in Files : ParseCountMatrix(f)
       \/ \E f \in Files, run \in ToolOutcomes : Ingest(f, run)
       \/ \E f \in Files : DetectInputType(f)

SpecParse == InitParse /\ [][NextParse]_vars

\* one process at a time ingesting files and saving the report, the save
\* seen step by step
NextSave ==
    \/ /\ out.op # "saving"
       /\ \E f \in MainFiles, run \in AggRuns : Ingest(f, run)
    \/ \E fn \in JsonNames : SaveOpen(fn)
    \/ SaveFlush
    \/ SaveClose
    \/ SaveCrash

SpecSave == Init /\ [][NextSave]_vars

(***************************************************************************)
(* The claims.                                                             *)
(***************************************************************************)
UniqueNames(rs) ==
    \A i, j \in 1..Len(rs) : rs[i].sample_name = rs[j].sample_name => i = j

\* C1: after any sequence of generate_report merges that starts from an
\* absent or key-unique report, no two records of a persisted 'results'
\* collection share a sample_name.  (Two records of one batch with the same
\* sample_name, a.tsv and a.txt, are both appended: TLC finds this violated.)
C1_UniqueSampleNames ==
    \A fn \in JsonNames :
        disk[fn].exists /\ disk[fn].parseable => UniqueNames(disk[fn].results)

\* C2: generate_report called a second time with the same batch ends with
\* the same 'results' sequence and the same total_files as the first call.
C2_MergeIdempotent ==
    (out.op = "generate_report" /\ out.again)
        => /\ disk[out.fn].results = out.before.results
           /\ disk[out.fn].total_files = out.before.total_files

C2_Witness ==
    /\ out.op = "generate_report"
    /\ out.again
    /\ out.batch # <<>>
    /\ \E i \in 1..Len(out.before.results) :
         out.before.results[i] \in Range(out.batch)

\* C3: after the second of two merges of the same batch the whole document,
\* timestamp included, is what it was after the first.  (The second merge
\* writes a new timestamp: TLC finds this violated.)
C3_SecondMergeIdentical ==
    (out.op = "generate_report" /\ out.again) => disk[out.fn] = out.before

Accumulating == {"parse_fastq", "parse_cell", "parse_count_matrix"}

Validators == Accumulating \cup {"parse_bam"}

\* C5: when parse_fastq, parse_cell or parse_count_matrix got past the
\* header confirmation and returned, the status is PASS iff it recorded no
\* diagnostic, WARN iff it recorded 1 to 10, FAIL iff it recorded more.
C5_StatusTier ==
    (out.op \in Accumulating /\ out.res.ret = "record" /\ out.res.header)
        => LET n == out.res.ndiag
               status == out.res.rec.validation_status
           IN  /\ status = "PASS" <=> n = 0
               /\ status = "WARN" <=> (1 <= n /\ n <= 10)
               /\ status = "FAIL" <=> n > 10

C5_Witness ==
    /\ out.op = "parse_fastq"
    /\ out.res.header
    /\ out.res.ndiag = 10
    /\ out.res.rec.validation_status = "WARN"

\* the rule violations of a file's body, as the format rules count them
FastqViolations(recs, i) ==
    Cardinality({ j \in i..Len(recs) : ~recs[j].hdr })
      + Cardinality({ j \in i..Len(recs) : ~recs[j].plus })
      + Cardinality({ j \in i..Len(recs) : ~recs[j].len })
      + Cardinality({ j \in i..Len(recs) : ~recs[j].nuc })
      + Cardinality({ j \in i..Len(recs) : ~recs[j].qual })

BadValues(fields, from) ==
    Cardinality({ c \in from..Len(fields) : fields[c] \notin {"int", "frac"} })

RECURSIVE CellViolations(_, _, _)
CellViolations(rows, i, ncols) ==
    IF i > Len(rows) THEN 0
    ELSE LET fields == Fields(rows[i])
         IN  B2N(Len(fields) # ncols) + B2N(fields[1] \in {"bad", "", "frac"})
               + BadValues(fields, 3) + CellViolations(rows, i + 1, ncols)

RECURSIVE MatrixViolations(_, _, _)
MatrixViolations(rows, i, ncols) ==
    IF i > Len(rows) THEN 0
    ELSE LET fields == Fields(rows[i])
         IN  B2N(Len(fields) # ncols) + B2N(fields[1] = "")
               + BadValues(fields, 2) + MatrixViolations(rows, i + 1, ncols)

\* the header row (the first record) of the file meets its format's rules
HeaderFine(op, f) ==
    /\ f.exists
    /\ CASE op = "parse_fastq" ->
              f.content.kind = "fastq" /\ f.content.recs # <<>> /\ f.content.recs[1] = FqClean
         [] op = "parse_cell" ->
              f.content.kind = "table" /\ f.content.header = Header(3, TRUE, TRUE)
         [] OTHER ->
              f.content.kind = "table" /\ f.content.header.ncols >= 2

BodyViolations(op, f) ==
    CASE op = "parse_fastq" -> FastqViolations(f.content.recs, 1)
      [] op = "parse_cell" -> CellViolations(f.content.rows, 1, f.content.header.ncols)
      [] OTHER -> MatrixViolations(f.content.rows, 1, f.content.header.ncols)

\* C6: a RAW_READS, ARRAY_INTENSITY or COUNT_MATRIX file with exactly 10
\* body-level violations is WARN and one with exactly 11 is FAIL.  (Rows
\* past the fifth record nothing in parse_cell, and any violation fails the
\* count-matrix confirmation: TLC finds this violated.)
C6_ThresholdBoundary ==
    (out.op \in Accumulating /\ HeaderFine(out.op, out.file))
        => /\ BodyViolations(out.op, out.file) = 10
                => out.res.ret = "record" /\ out.res.rec.validation_status = "WARN"
           /\ BodyViolations(out.op, out.file) = 11
                => out.res.ret = "record" /\ out.res.rec.validation_status = "FAIL"

\* C7: when the header / magic confirmation of a validator answers False, no
\* record or row of the body is checked, samtools is not run, no record
\* other than a FAIL record is returned, and for a file (whatever it holds)
\* the FAIL record is returned.
C7_HeaderShortCircuit ==
    (out.op \in Validators /\ ~out.res.header)
        => /\ out.res.body = 0
           /\ ~out.res.tool
           /\ out.res.ret = "record" => out.res.rec.validation_status = "FAIL"
           /\ out.file.exists => out.res.ret = "record"

C7_Witness ==
    /\ out.op = "parse_bam"
    /\ out.file.exists /\ out.file.content.kind = "bam" /\ ~out.file.content.magic
    /\ out.run.kind = "ok"
    /\ out.res.ret = "record" /\ out.res.rec.validation_status = "FAIL"
    /\ ~out.res.tool

\* no file at the path, a file of zero bytes, or a FASTQ file that ends in
\* the middle of a record
Unusable(f) ==
    \/ ~f.exists
    \/ f.content.kind = "empty"
    \/ f.content.kind = "fastq" /\ f.content.tail > 0

\* C8: for a path with no file, an empty file or a file cut in the middle of
\* a record, ingest() and every parse_* return a FAIL record and do not
\* raise.  (With no file at the path stat() raises out of every one of
\* them, and a cut FASTQ file can PASS: TLC finds this violated.)
C8_FailRecordNeverRaise ==
    (out.op \in Validators \cup {"ingest"} /\ Unusable(out.file))
        => out.res.ret = "record" /\ out.res.rec.validation_status = "FAIL"

\* C9: every path of the batch main() has looked at has exactly one record
\* in the batch results.  (A path with no file is skipped with `continue`:
\* TLC finds this violated.)
C9_OneRecordPerPath ==
    mpc # "idle" => Len(mresults) = midx

\* C10: for a BAM file with the valid magic prefix parse_bam returns PASS
\* whatever samtools does, and total_reads and is_paired_end are None
\* unless samtools returned 0 with a read count.
C10_BamPassWithoutTool ==
    (out.op = "parse_bam" /\ out.file.exists /\ out.file.content.kind = "bam"
       /\ out.file.content.magic)
        => /\ out.res.ret = "record"
           /\ out.res.rec.validation_status = "PASS"
           /\ out.run.kind # "ok"
                => out.res.rec.total_reads = <<>> /\ out.res.rec.is_paired_end = <<>>

C10_Witness ==
    /\ out.op = "parse_bam"
    /\ out.file.content.kind = "bam" /\ out.file.content.magic
    /\ out.run.kind = "timeout"
    /\ out.res.rec.validation_status = "PASS"
    /\ out.res.rec.total_reads = <<>>

Known == {"FASTQ", "BAM", "CELL", "MATRIX"}

\* the header confirmation of a known format, asked of the file
ConfirmedBy(type, f) ==
    CASE type = "FASTQ" -> validate_fastq_header(f)
      [] type = "BAM" -> validate_bam_magic(f)
      [] type = "CELL" -> validate_cell_header(f)
      [] OTHER -> validate_count_matrix_structure(f)

CallOf(type) ==
    CASE type = "FASTQ" -> "fastq"
      [] type = "BAM" -> "bam"
      [] type = "CELL" -> "cell"
      [] OTHER -> "matrix"

Tabular(f) == Suffix(f.name) \in {".tsv", ".csv", ".txt"}

\* C11: detect_input_type returns FASTQ, BAM, CELL, MATRIX or UNKNOWN; it
\* returns a known format only if it called that format's confirmation and
\* the confirmation answers True on the file, and it returns UNKNOWN when no
\* confirmation answers True.
C11_DetectConfirmed ==
    out.op = "detect_input_type"
        => /\ out.type \in Known \cup {"UNKNOWN"}
           /\ out.type \in Known
                => /\ ConfirmedBy(out.type, out.file)
                   /\ CallOf(out.type) \in Range(out.calls)
           /\ (\A type \in Known : ~ConfirmedBy(type, out.file)) => out.type = "UNKNOWN"

C11_Witness ==
    /\ out.op = "detect_input_type"
    /\ Suffix(out.file.name) = ".bam"
    /\ out.file.exists /\ out.file.content.kind = "bam" /\ ~out.file.content.magic
    /\ out.calls = <<"bam">>
    /\ out.type = "UNKNOWN"

\* C12: for a .tsv / .csv / .txt file that meets both the array header rule
\* and the count-matrix structure rule detect_input_type returns CELL, and
\* the count-matrix confirmation is never called unless the array
\* confirmation was called before it.
C12_CellBeforeMatrix ==
    (out.op = "detect_input_type" /\ Tabular(out.file))
        => /\ (validate_cell_header(out.file) /\ validate_count_matrix_structure(out.file))
                => out.type = "CELL"
           /\ \A i \in 1..Len(out.calls) :
                out.calls[i] = "matrix" => \E j \in 1..(i - 1) : out.calls[j] = "cell"

C12_Witness ==
    /\ out.op = "detect_input_type"
    /\ Tabular(out.file)
    /\ validate_cell_header(out.file)
    /\ validate_count_matrix_structure(out.file)
    /\ out.type = "CELL"

\* C13: no confirmation called by detect_input_type reads more of the file
\* than a fixed prefix (four lines or four bytes, as the FASTQ and BAM
\* confirmations do), however long the file is.  (The count-matrix
\* confirmation reads every line: TLC finds this violated.)
C13_SniffReadsPrefix ==
    out.op = "detect_input_type"
        => \A i \in 1..Len(out.reads) : out.reads[i] <= SniffPrefix

\* C14: the status of every record returned is the status its number of
\* diagnostics gives under the threshold 10: PASS for none, WARN for 1 to 10,
\* FAIL for more.  (The header short-circuit and the UNKNOWN record are FAIL
\* with no diagnostic recorded: TLC finds this violated.)
C14_StatusFromCount ==
    (out.op \in Validators \cup {"ingest"} /\ out.res.ret = "record")
        => out.res.rec.validation_status = StatusOf(out.res.ndiag)

\* the string the tokens of a sample name spell is empty
IsEmptyName(name) == \A i \in 1..Len(name) : name[i] = ""

\* C15: every record in self.results has a non-empty sample_name.  (The
\* FASTQ file named .fq.gz gets the empty name: TLC finds this violated.)
C15_NonEmptySampleName ==
    \A i \in 1..Len(results) : ~IsEmptyName(results[i].sample_name)

\* C16: the sample_name ingest() gives a file is the one it gives any other
\* content at the same path, under any run of samtools.  (a.fq.gz is "a" as
\* FASTQ and "a.fq" as UNKNOWN: TLC finds this violated.)
C16_SampleNameFromPath ==
    (out.op = "ingest" /\ out.res.ret = "record")
        => \A c \in FewBodies, run \in ToolOutcomes :
             LET other == ingest(File(out.file.name, TRUE, c), run, clock)
             IN  other.ret = "record"
                   => other.rec.sample_name = out.res.rec.sample_name

\* C20: when parse_cell got past the header confirmation and some data row,
\* at any position, has a wrong column count, a malformed probe identifier
\* or a non-numeric or negative value after the first two columns, the
\* status is not PASS.  (Rows after the fifth record nothing: TLC finds this
\* violated.)
C20_CellChecksEveryRow ==
    (out.op = "parse_cell" /\ out.res.ret = "record" /\ out.res.header
       /\ CellViolations(out.file.content.rows, 1, out.file.content.header.ncols) > 0)
        => out.res.rec.validation_status # "PASS"

RECURSIVE CountOf(_, _)
CountOf(rs, status) ==
    IF rs = <<>> THEN 0
    ELSE B2N(Head(rs).validation_status = status) + CountOf(Tail(rs), status)

\* C17: after every merge total_files of the JSON report is the length of
\* its 'results', and the total and the PASS / WARN / FAIL totals of the
\* HTML report are the numbers of records, and of records with that status,
\* among the rows it displays.
C17_CountsRecomputed ==
    /\ out.op = "generate_report"
         => disk[out.fn].total_files = Len(disk[out.fn].results)
    /\ html.exists
         => /\ html.total = Len(html.rows)
            /\ html.pass_count = CountOf(html.rows, "PASS")
            /\ html.warn_count = CountOf(html.rows, "WARN")
            /\ html.fail_count = CountOf(html.rows, "FAIL")

C17_Witness ==
    /\ out.op = "generate_report"
    /\ LoadExisting(out.before) # <<>>
    /\ disk[out.fn].total_files = 2
    /\ html.exists
    /\ html.total = 2
    /\ html.pass_count = 1 /\ html.warn_count = 0 /\ html.fail_count = 1

NameCount(rs, name) == Cardinality({ i \in 1..Len(rs) : rs[i].sample_name = name })

\* C18: a step that appends to self.results (an ingest() call) leaves every
\* report file as it was; a report file changes only in a generate_report
\* step, and only the file that call names; and a generate_report step adds
\* no record whose sample_name was already in the report it loaded.
C18_IngestLeavesReport ==
    [][ /\ results' # results => disk' = disk
        /\ out'.op = "ingest" => disk' = disk
        /\ disk' # disk
             => /\ out'.op = "generate_report"
                /\ out'.before = disk[out'.fn]
                /\ \A fn \in JsonNames : disk'[fn] # disk[fn] => fn = out'.fn
        /\ out'.op = "generate_report"
             => LET loaded == LoadExisting(out'.before)
                IN  \A name \in ExistingSamples(loaded) :
                      NameCount(disk'[out'.fn].results, name) = NameCount(loaded, name)
      ]_vars

\* an interrupted batch (one file ingested and merged) is run again in
\* full: the recorded name is skipped, the other record is added
C18_Witness ==
    /\ out.op = "generate_report"
    /\ ~out.again
    /\ Len(out.batch) = 2
    /\ out.batch[1] \in Range(LoadExisting(out.before))
    /\ out.batch[2].sample_name \notin ExistingSamples(LoadExisting(out.before))
    /\ disk[out.fn].results = Append(out.before.results, out.batch[2])

\* C19: while generate_report saves, and after it was killed while saving,
\* the report file holds either the whole document it held before or the
\* whole new document.  (open(..., 'w') empties the file before anything is
\* written: TLC finds this violated.)
C19_AtomicSave ==
    out.op \in {"saving", "killed"} => disk[out.fn] \in {out.before, out.doc}

\* C21: when parse_fastq got past the header confirmation and some record it
\* sampled breaks a rule (header, plus line, nucleotides, length, quality
\* range), the status is not PASS.  (The loop never looks at the quality
\* range and records bad nucleotides for the first five records only: TLC
\* finds this violated.)
C21_FastqChecksEveryRecord ==
    (out.op = "parse_fastq" /\ out.res.ret = "record" /\ out.res.header
       /\ Len(out.file.content.recs) <= SampleCap
       /\ FastqViolations(out.file.content.recs, 1) > 0)
        => out.res.rec.validation_status # "PASS"

\* the file cut after its first n records
FirstRecords(f, n) ==
    File(f.name, f.exists, FastqContent(SubSeq(f.content.recs, 1, n), 0))

\* C22: for a FASTQ file of more than 1000 records parse_fastq checks 1000
\* records, reports total_reads 1000, and returns the status it returns for
\* the first 1000 records alone.  (The loop leaves after record 1001: TLC
\* finds this violated.)
C22_SamplingCap ==
    (out.op = "parse_fastq" /\ out.res.ret = "record" /\ out.res.header
       /\ Len(out.file.content.recs) > SampleCap)
        => /\ out.res.body = SampleCap
           /\ out.res.rec.total_reads = <<SampleCap>>
           /\ out.res.rec.validation_status
                = parse_fastq(FirstRecords(out.file, SampleCap), clock).rec.validation_status

\* a count matrix that is valid but for the kind of its values: a header of
\* two columns or more, a data row, and every row with an identifier, the
\* header's number of fields, and numbers for values
OtherwiseValid(f) ==
    /\ f.exists
    /\ f.content.kind = "table"
    /\ f.content.header.ncols >= MatrixMinCols
    /\ f.content.rows # <<>>
    /\ \A i \in 1..Len(f.content.rows) :
         LET row == f.content.rows[i]
         IN  /\ row.id = "ok"
             /\ 1 + Len(row.vals) = f.content.header.ncols
             /\ \A c \in 1..Len(row.vals) : row.vals[c] \in {"int", "frac", "neg"}

HasValue(f, kind) ==
    \E i \in 1..Len(f.content.rows) : kind \in Range(f.content.rows[i].vals)

\* C23: for a count matrix that is otherwise valid, parse_count_matrix
\* records no diagnostic and returns PASS when no value is negative, values
\* such as 3.5 included, and returns a status other than PASS when some
\* value, in whatever row, is negative.
C23_FractionPassesNegativeFails ==
    (out.op = "parse_count_matrix" /\ OtherwiseValid(out.file))
        => /\ out.res.ret = "record"
           /\ ~HasValue(out.file, "neg")
                => out.res.rec.validation_status = "PASS" /\ out.res.ndiag = 0
           /\ HasValue(out.file, "neg") => out.res.rec.validation_status # "PASS"

\* five rows of integers, then rows with a negative value
C23_Witness ==
    /\ out.op = "parse_count_matrix"
    /\ OtherwiseValid(out.file)
    /\ Len(out.file.content.rows) > RecordedRows
    /\ \A i \in 1..RecordedRows : "neg" \notin Range(out.file.content.rows[i].vals)
    /\ HasValue(out.file, "neg")
    /\ out.res.rec.validation_status = "FAIL"

\* a 3.5 in a row after the fifth
C23_WitnessFraction ==
    /\ out.op = "parse_count_matrix"
    /\ OtherwiseValid(out.file)
    /\ Len(out.file.content.rows) > RecordedRows
    /\ "frac" \in Range(out.file.content.rows[Len(out.file.content.rows)].vals)
    /\ out.res.rec.validation_status = "PASS"

\* C24: after a generate_report call the 'results' sequence the report file
\* held before the call is a prefix of the one it holds after it, also when
\* the file could not be parsed.  (A report that json.load fails on is
\* written over with the new records alone: TLC finds this violated.)
C24_MergeKeepsPersisted ==
    out.op = "generate_report"
        => IsPrefix(out.before.results, disk[out.fn].results)

\* C25: when a run of main() has written its reports, the rows of the HTML
\* report are the records of the JSON report it wrote, whatever the JSON
\* file name.  (With --json custom.json the page is merged against
\* ingest_report.json and the JSON report against custom.json: TLC finds
\* this violated.)
C25_HtmlShowsJson ==
    (mpc = "summary" /\ ~margs.no_report)
        => html.rows = disk[margs.json].results

====
